---------------------------- MODULE Spec2Model ----------------------------
(***************************************************************************)
(* Model of the CSRF token issuer and verifier of src/server/index.js,     *)
(* of the start of that server and its limiter, and of the page's          *)
(* rateLimit and backend (src/assets/js/email-config.js), ConfigManager    *)
(* (src/assets/js/config.js), Logger (src/assets/js/logger.js) and number  *)
(* helpers (src/assets/js/utils.js).  Each part has its own specification: *)
(* Spec (the loaded server), SpecBoot, SpecApi, SpecGate (limiter, then    *)
(* verifier, then handler), SpecLimit, SpecConfig, SpecFallback (a page    *)
(* whose fetches fail, and the server), SpecBackend, SpecLogger,           *)
(* SpecNumber; the variables of the other parts stay as they start.        *)
(*                                                                         *)
(* Strings are sequences of one-character strings, so that split(':'),     *)
(* hex decoding, number formatting and number parsing are computed the way *)
(* the JavaScript runtime computes them.  crypto.createHmac is a keyed     *)
(* deterministic digest of 64 lowercase hex characters; its cryptographic  *)
(* strength is not modelled.  Date.now() is the variable now, counted in   *)
(* milliseconds from an arbitrary origin: the clock of the server in Spec, *)
(* SpecBoot, SpecApi and SpecGate, of the page in SpecLimit and            *)
(* SpecBackend, and of both, as one clock, in SpecConfig and SpecFallback. *)
(***************************************************************************)
EXTENDS Integers, Sequences, FiniteSets, TLC

(***************************************************************************)
(* Bounds of the model.                                                    *)
(***************************************************************************)
\* how many tokens GET /api/csrf-token hands out in one behaviour
MaxIssued == 1
\* the clock visits 0..Slack, TTL-1..TTL+Slack and 31 minutes
Slack == 1
\* the signature positions 1..MaxFlipPos are the ones a client flips
MaxFlipPos == 1
\* how many calls of rateLimit.check() one behaviour has
MaxChecks == 7
\* how many times the page's clock moves on by a minute and more
Steps == 1
\* how many requests beyond the ceiling a remote address sends in a window
Excess == 1

\* the units 0..MaxUnit are formatted at every scale
MaxUnit == 20

\* how many entries beyond the size of the history a page records
Overflow == 3

\* how many entries backend.applications comes to hold
MaxApplications == 3

(***************************************************************************)
(* Program constants.                                                      *)
(***************************************************************************)
CSRF_TOKEN_EXPIRY_MS == 30 * 60 * 1000
\* digest('hex') of a sha256 HMAC: 32 bytes, 64 characters
HexDigestLen == 64
\* crypto.randomBytes(16).toString('hex'): 32 characters
NonceHexLen == 32
ErrInvalidToken == "Invalid or missing CSRF token"

(***************************************************************************)
(* Characters.                                                             *)
(***************************************************************************)
Digits == <<"0", "1", "2", "3", "4", "5", "6", "7", "8", "9">>
HexLower == Digits \o <<"a", "b", "c", "d", "e", "f">>
HexUpper == Digits \o <<"A", "B", "C", "D", "E", "F">>
Alphabet == HexLower \o <<"A", "B", "C", "D", "E", "F",
                          "g", ":", "I", "n", "i", "t", "y">>
Chars == {Alphabet[i] : i \in 1..Len(Alphabet)}
DigitChars == {Digits[i] : i \in 1..Len(Digits)}
HexChars == {HexLower[i] : i \in 1..16} \cup {HexUpper[i] : i \in 1..16}

CharCode == [c \in Chars |-> CHOOSE i \in 1..Len(Alphabet) : Alphabet[i] = c]
\* value of a hex digit, either case (the table of the hex decoder)
HexValue == [c \in HexChars |->
               (CHOOSE i \in 1..16 : HexLower[i] = c \/ HexUpper[i] = c) - 1]
DigitValue == [c \in DigitChars |-> (CHOOSE i \in 1..10 : Digits[i] = c) - 1]

(***************************************************************************)
(* JavaScript values: undefined, strings, numbers.                         *)
(***************************************************************************)
Undefined == [t |-> "undefined", s |-> <<>>, n |-> 0]
Str(s) == [t |-> "string", s |-> s, n |-> 0]
Num(n) == [t |-> "number", s |-> <<>>, n |-> n]
Null == [t |-> "null", s |-> <<>>, n |-> 0]

\* ToBoolean: undefined, "" and 0 are falsy
Truthy(v) ==
  CASE v.t = "undefined" -> FALSE
    [] v.t = "null" -> FALSE
    [] v.t = "string" -> v.s # <<>>
    [] v.t = "number" -> v.n # 0

\* a || b
OrElse(a, b) == IF Truthy(a) THEN a ELSE b

(***************************************************************************)
(* String.prototype.split(':') and array destructuring.                    *)
(***************************************************************************)
Split(s) ==
  LET colons == {i \in 1..Len(s) : s[i] = ":"}
      n == Cardinality(colons)
      pos(k) == IF k = 0 THEN 0
                ELSE IF k = n + 1 THEN Len(s) + 1
                ELSE CHOOSE i \in colons :
                       Cardinality({j \in colons : j < i}) = k - 1
  IN [k \in 1..(n + 1) |-> SubSeq(s, pos(k - 1) + 1, pos(k) - 1)]

\* const [a, b, c] = parts: element k, undefined when the array is shorter
Element(parts, k) == IF k <= Len(parts) THEN Str(parts[k]) ELSE Undefined

(***************************************************************************)
(* Number -> string (template literal) and string -> number (Number()).    *)
(***************************************************************************)
RECURSIVE NumberToString(_)
NumberToString(n) ==
  IF n < 10 THEN <<Digits[n + 1]>>
  ELSE NumberToString(n \div 10) \o <<Digits[(n % 10) + 1]>>

\* the largest integer the model's arithmetic represents exactly
MaxSafe == 2000000000

RECURSIVE DecimalValue(_, _, _)
\* value of the digit string s from position i on, saturating above MaxSafe
DecimalValue(s, i, acc) ==
  IF i > Len(s) THEN acc
  ELSE IF acc > MaxSafe \div 10 THEN MaxSafe
  ELSE DecimalValue(s, i + 1, acc * 10 + DigitValue[s[i]])

\* Number(str) for strings over Chars: a record [k, n] with k one of
\* "nan", "inf" (Infinity), "fin" (finite, value n; values above MaxSafe
\* are reported as MaxSafe, which is later than every instant of the model)
IsDigits(s) == Len(s) > 0 /\ \A i \in 1..Len(s) : s[i] \in DigitChars
NaN == [k |-> "nan", n |-> 0]
Infinity == [k |-> "inf", n |-> 0]
Finite(n) == [k |-> "fin", n |-> n]
RECURSIVE Scale(_, _)
Scale(m, e) ==
  IF e = 0 \/ m = 0 THEN m
  ELSE IF m > MaxSafe \div 10 THEN MaxSafe
  ELSE Scale(m * 10, e - 1)
Number(s) ==
  LET exps == {i \in 1..Len(s) : s[i] \in {"e", "E"}}
  IN IF s = <<>> THEN Finite(0)
     ELSE IF s = <<"I", "n", "f", "i", "n", "i", "t", "y">> THEN Infinity
     ELSE IF IsDigits(s) THEN Finite(DecimalValue(s, 1, 0))
     ELSE IF Cardinality(exps) = 1
       THEN LET p == CHOOSE i \in exps : TRUE
                m == SubSeq(s, 1, p - 1)
                e == SubSeq(s, p + 1, Len(s))
            IN IF IsDigits(m) /\ IsDigits(e)
                 THEN LET mv == DecimalValue(m, 1, 0)
                          ev == DecimalValue(e, 1, 0)
                      IN IF mv > 0 /\ ev > 400 THEN Infinity
                         ELSE Finite(Scale(mv, ev))
                 ELSE NaN
     ELSE NaN

NumberIsNaN(x) == x.k = "nan"
\* a > b for a finite number a (Date.now()) and a Number() result b
GreaterThan(a, b) ==
  CASE b.k = "nan" -> FALSE
    [] b.k = "inf" -> FALSE
    [] b.k = "fin" -> a > b.n

(***************************************************************************)
(* crypto.createHmac('sha256', key).update(data).digest('hex').            *)
(***************************************************************************)
RECURSIVE Mix(_, _, _)
Mix(s, i, acc) ==
  IF acc < 0 \/ i > Len(s) THEN acc
  ELSE Mix(s, i + 1, (acc * 31 + CharCode[s[i]]) % 65521)

Hmac(key, data) ==
  LET h == Mix(data, 1, Mix(key, 1, 7))
  IN [i \in 1..HexDigestLen |->
        HexLower[(((h \div i) + (h % 97) * i + i * i) % 16) + 1]]

(***************************************************************************)
(* Buffer.from(str, 'hex') and crypto.timingSafeEqual.                     *)
(***************************************************************************)
\* decoding stops at the first pair that holds a non-hex character; an odd
\* trailing character is dropped
BufferFromHex(s) ==
  LET pairs == Len(s) \div 2
      bad == {k \in 1..pairs :
                s[2 * k - 1] \notin HexChars \/ s[2 * k] \notin HexChars}
      n == IF bad = {} THEN pairs
           ELSE (CHOOSE k \in bad : \A j \in bad : k <= j) - 1
  IN [k \in 1..n |-> 16 * HexValue[s[2 * k - 1]] + HexValue[s[2 * k]]]

\* "throw" when the byte lengths differ (RangeError), else "true"/"false"
timingSafeEqual(a, b) ==
  IF Len(a) # Len(b) THEN "throw"
  ELSE IF a = b THEN "true" ELSE "false"

(***************************************************************************)
(* Responses.  Passed is the outcome `return next()`: control goes to the  *)
(* protected handler.  Thrown is an exception leaving the middleware,      *)
(* which Express answers with status 500.                                  *)
(***************************************************************************)
NoResponse ==
  [status |-> 0, error |-> "", token |-> <<>>, next |-> FALSE, threw |-> FALSE]
Reject ==
  [status |-> 403, error |-> ErrInvalidToken, token |-> <<>>,
   next |-> FALSE, threw |-> FALSE]
Passed ==
  [status |-> 0, error |-> "", token |-> <<>>, next |-> TRUE, threw |-> FALSE]
Thrown ==
  [status |-> 500, error |-> "RangeError", token |-> <<>>,
   next |-> FALSE, threw |-> TRUE]
Ok(token) ==
  [status |-> 200, error |-> "", token |-> token,
   next |-> FALSE, threw |-> FALSE]

(***************************************************************************)
(* verifyCsrfToken and issueCsrfToken.                                     *)
(***************************************************************************)
\* variant: the body field _token is consulted before the header
TokenOf_BodyFirst(req) ==
  OrElse(OrElse(req.bodyToken, req.header), req.csrfToken)

\* req.headers['x-csrf-token'] || req.body?._token || req.body?.csrfToken
TokenOf(req) == OrElse(OrElse(req.header, req.bodyToken), req.csrfToken)

\* signature.length === expectedSignature.length && timingSafeEqual(...)
SignaturesMatch(signature, expectedSignature) ==
  IF Len(signature) # Len(expectedSignature) THEN "false"
  ELSE timingSafeEqual(BufferFromHex(signature),
                       BufferFromHex(expectedSignature))

\* variant: the clock is read in seconds, the expiry is in milliseconds
Expired_NowInSeconds(t, expiry) == GreaterThan(t \div 1000, expiry)

\* variant: the expiry is taken for seconds, the clock is in milliseconds
Expired_ExpiryInSeconds(t, expiry) ==
  GreaterThan(t, [expiry EXCEPT !.n = @ \div 1000])

\* Date.now() > expiry
Expired(t, expiry) == GreaterThan(t, expiry)

\* `${a}:${b}`
Join(a, b) == a \o <<":">> \o b

\* variant: a token that is a nonce alone is let through
verifyCsrfToken_PassesUnsigned(req, t, secret) ==
  LET token == TokenOf(req)
  IN IF ~Truthy(token) \/ token.t # "string" THEN Reject
     ELSE
       LET parts == Split(token.s)
           nonce == Element(parts, 1)
           expiryStr == Element(parts, 2)
           signature == Element(parts, 3)
       IN IF ~Truthy(expiryStr) /\ ~Truthy(signature) THEN Passed
          ELSE IF ~Truthy(nonce) \/ ~Truthy(expiryStr) \/ ~Truthy(signature)
            THEN Reject
          ELSE
            LET payload == Join(nonce.s, expiryStr.s)
                expectedSignature == Hmac(secret, payload)
                signaturesMatch ==
                  SignaturesMatch(signature.s, expectedSignature)
                expiry == Number(expiryStr.s)
            IN IF signaturesMatch = "throw" THEN Thrown
               ELSE IF signaturesMatch = "false" \/ NumberIsNaN(expiry)
                       \/ Expired(t, expiry)
                 THEN Reject
               ELSE Passed

verifyCsrfToken(req, t, secret) ==
  LET token == TokenOf(req)
  IN IF ~Truthy(token) \/ token.t # "string" THEN Reject
     ELSE
       LET parts == Split(token.s)
           nonce == Element(parts, 1)
           expiryStr == Element(parts, 2)
           signature == Element(parts, 3)
       IN IF ~Truthy(nonce) \/ ~Truthy(expiryStr) \/ ~Truthy(signature)
            THEN Reject
          ELSE
            LET payload == Join(nonce.s, expiryStr.s)
                expectedSignature == Hmac(secret, payload)
                signaturesMatch ==
                  SignaturesMatch(signature.s, expectedSignature)
                expiry == Number(expiryStr.s)
            IN IF signaturesMatch = "throw" THEN Thrown
               ELSE IF signaturesMatch = "false" \/ NumberIsNaN(expiry)
                       \/ Expired(t, expiry)
                 THEN Reject
               ELSE Passed

\* variant: the signature covers the nonce alone, not `nonce:expiry`
issueCsrfToken_SignsNonce(nonce, t, secret) ==
  LET expiresAt == t + CSRF_TOKEN_EXPIRY_MS
      payload == Join(nonce, NumberToString(expiresAt))
  IN Join(payload, Hmac(secret, nonce))

\* variant: the lifetime is added in seconds to a time in milliseconds
issueCsrfToken_LifetimeInSeconds(nonce, t, secret) ==
  LET expiresAt == t + (CSRF_TOKEN_EXPIRY_MS \div 1000)
      payload == Join(nonce, NumberToString(expiresAt))
  IN Join(payload, Hmac(secret, payload))

issueCsrfToken(nonce, t, secret) ==
  LET expiresAt == t + CSRF_TOKEN_EXPIRY_MS
      payload == Join(nonce, NumberToString(expiresAt))
      signature == Hmac(secret, payload)
  IN Join(payload, signature)

(***************************************************************************)
(* Process start: the module body of src/server/index.js up to the         *)
(* registration of the routes.  process.env holds strings or undefined;    *)
(* NODE_ENV is "" when it is not set.                                      *)
(***************************************************************************)
isProduction(e) == e.NODE_ENV = "production"

\* a start that warns in production too, instead of throwing
Startup_WarnsInProduction(e, random) ==
  [secret |-> OrElse(e.CSRF_SECRET, Str(random)).s,
   threw |-> FALSE,
   warned |-> ~Truthy(e.CSRF_SECRET)]

\* the secret, whether the module body threw, whether console.warn was called
Startup(e, random) ==
  [secret |-> OrElse(e.CSRF_SECRET, Str(random)).s,
   threw |-> ~Truthy(e.CSRF_SECRET) /\ isProduction(e),
   warned |-> ~Truthy(e.CSRF_SECRET) /\ ~isProduction(e)]

RouteCsrfToken == "GET /api/csrf-token"
RouteErrorReport == "POST /api/ekyc/error-report"
RouteStats == "GET /api/ekyc/stats"
RouteHealth == "GET /health"
Routes == {RouteHealth, RouteCsrfToken, RouteErrorReport, RouteStats}

(***************************************************************************)
(* The client-side limiter rateLimit of src/assets/js/email-config.js.     *)
(* check(rl, t) is one call of rateLimit.check() at Date.now() = t on the  *)
(* object rl: the object after the call, the value returned, whether       *)
(* alert() was called and whether the branch of line 118 was taken.        *)
(***************************************************************************)
FreshLimit == [attempts |-> 0, lastAttempt |-> 0]

\* variant: the window is over after 60 s, not after more than 60 s
check_ResetsAtSixtySeconds(rl, t) ==
  LET reset == t - rl.lastAttempt >= 60000
      r == IF reset THEN [attempts |-> 0, lastAttempt |-> t] ELSE rl
  IN IF r.attempts >= 5
       THEN [after |-> r, ret |-> FALSE, alert |-> TRUE, reset |-> reset]
       ELSE [after |-> [attempts |-> r.attempts + 1, lastAttempt |-> t],
             ret |-> TRUE, alert |-> FALSE, reset |-> reset]

\* variant: a rejected call is stamped as the last attempt
check_StampsRejected(rl, t) ==
  LET reset == t - rl.lastAttempt > 60000
      r == IF reset THEN [attempts |-> 0, lastAttempt |-> t] ELSE rl
  IN IF r.attempts >= 5
       THEN [after |-> [r EXCEPT !.lastAttempt = t],
             ret |-> FALSE, alert |-> TRUE, reset |-> reset]
       ELSE [after |-> [attempts |-> r.attempts + 1, lastAttempt |-> t],
             ret |-> TRUE, alert |-> FALSE, reset |-> reset]

\* variant: the new window keeps the count of the old one
check_KeepsCount(rl, t) ==
  LET reset == t - rl.lastAttempt > 60000
      r == IF reset THEN [rl EXCEPT !.lastAttempt = t] ELSE rl
  IN IF r.attempts >= 5
       THEN [after |-> r, ret |-> FALSE, alert |-> TRUE, reset |-> reset]
       ELSE [after |-> [attempts |-> r.attempts + 1, lastAttempt |-> t],
             ret |-> TRUE, alert |-> FALSE, reset |-> reset]

\* variant: the ceiling is tested with > instead of >=
check_AllowsSixth(rl, t) ==
  LET reset == t - rl.lastAttempt > 60000
      r == IF reset THEN [attempts |-> 0, lastAttempt |-> t] ELSE rl
  IN IF r.attempts > 5
       THEN [after |-> r, ret |-> FALSE, alert |-> TRUE, reset |-> reset]
       ELSE [after |-> [attempts |-> r.attempts + 1, lastAttempt |-> t],
             ret |-> TRUE, alert |-> FALSE, reset |-> reset]

\* variant: a rejected call clears the count
check_ResetsOnReject(rl, t) ==
  LET reset == t - rl.lastAttempt > 60000
      r == IF reset THEN [attempts |-> 0, lastAttempt |-> t] ELSE rl
  IN IF r.attempts >= 5
       THEN [after |-> [r EXCEPT !.attempts = 0],
             ret |-> FALSE, alert |-> TRUE, reset |-> reset]
       ELSE [after |-> [attempts |-> r.attempts + 1, lastAttempt |-> t],
             ret |-> TRUE, alert |-> FALSE, reset |-> reset]

\* variant: the window never elapses
check_NeverResets(rl, t) ==
  LET reset == FALSE
      r == IF reset THEN [attempts |-> 0, lastAttempt |-> t] ELSE rl
  IN IF r.attempts >= 5
       THEN [after |-> r, ret |-> FALSE, alert |-> TRUE, reset |-> reset]
       ELSE [after |-> [attempts |-> r.attempts + 1, lastAttempt |-> t],
             ret |-> TRUE, alert |-> FALSE, reset |-> reset]

check(rl, t) ==
  LET reset == t - rl.lastAttempt > 60000
      r == IF reset THEN [attempts |-> 0, lastAttempt |-> t] ELSE rl
  IN IF r.attempts >= 5
       THEN [after |-> r, ret |-> FALSE, alert |-> TRUE, reset |-> reset]
       ELSE [after |-> [attempts |-> r.attempts + 1, lastAttempt |-> t],
             ret |-> TRUE, alert |-> FALSE, reset |-> reset]

(***************************************************************************)
(* The limiter of src/server/index.js: express-rate-limit configured with  *)
(* windowMs and max and mounted on the prefix /api/.  The package is not   *)
(* part of the repository; limiter(b, t) is its documented behaviour with  *)
(* the default key (the remote address) and the default in-memory store:   *)
(* the first request of a key opens a window of windowMs, every request    *)
(* in the window is counted, and a request whose count exceeds max is      *)
(* answered 429 without next() being called.  A path is the sequence of    *)
(* its segments.                                                           *)
(***************************************************************************)
windowMs == 60 * 1000
max == 120
NoBucket == [hits |-> 0, resetTime |-> 0]

limiter(b, t) ==
  LET open == IF b = NoBucket \/ b.resetTime <= t
                THEN [hits |-> 0, resetTime |-> t + windowMs]
                ELSE b
      counted == [open EXCEPT !.hits = @ + 1]
  IN [bucket |-> counted, limited |-> counted.hits > max]

\* variant: the limiter is mounted after the routes and never runs
UnderApi_Never(path) == FALSE

\* app.use('/api/', limiter): the paths the limiter runs for
UnderApi(path) == path # <<>> /\ path[1] = "api"

PathCsrfToken == <<"api", "csrf-token">>
PathHealth == <<"health">>

\* one request of the remote address ip to the path at time t, up to the
\* call of its route handler: the buckets afterwards and the answer
Dispatch(bs, ip, path, t) ==
  IF UnderApi(path)
    THEN LET l == limiter(bs[ip], t)
         IN [buckets |-> [bs EXCEPT ![ip] = l.bucket],
             status |-> IF l.limited THEN 429 ELSE 200,
             handled |-> ~l.limited]
    ELSE [buckets |-> bs, status |-> 200, handled |-> TRUE]

PathErrorReport == <<"api", "ekyc", "error-report">>

\* variant: the route verifies the token before the limiter is asked
Handle_VerifiesFirst(bs, ip, path, r, t, secret) ==
  LET v == IF path = PathErrorReport THEN verifyCsrfToken(r, t, secret)
           ELSE NoResponse
      d == Dispatch(bs, ip, path, t)
  IN IF path = PathErrorReport /\ ~v.next
       THEN [buckets |-> bs, status |-> v.status, res |-> v, ran |-> FALSE]
     ELSE IF ~d.handled
       THEN [buckets |-> d.buckets, status |-> 429, res |-> v, ran |-> FALSE]
     ELSE [buckets |-> d.buckets, status |-> 200, res |-> v, ran |-> TRUE]

\* one request r of ip to the path at time t through the whole stack: the
\* limiter of line 36, then for the error-report route verifyCsrfToken and,
\* when it calls next(), the route handler. res is what verifyCsrfToken
\* came to (NoResponse when it did not run), ran whether the handler ran.
Handle(bs, ip, path, r, t, secret) ==
  LET d == Dispatch(bs, ip, path, t)
  IN IF ~d.handled
       THEN [buckets |-> d.buckets, status |-> 429, res |-> NoResponse,
             ran |-> FALSE]
     ELSE IF path = PathErrorReport
       THEN LET v == verifyCsrfToken(r, t, secret)
            IN [buckets |-> d.buckets,
                status |-> IF v.next THEN 200 ELSE v.status,
                res |-> v, ran |-> v.next]
     ELSE [buckets |-> d.buckets, status |-> 200, res |-> NoResponse,
           ran |-> TRUE]

(***************************************************************************)
(* The ConfigManager of src/assets/js/config.js.  An object cm is          *)
(* [config |-> [encryptionKey, csrfToken], sessionStart].  A random draw   *)
(* is a number k: RandomBytesHex(k) is the hex of 32 random bytes,         *)
(* RandomFraction(k) is Math.random().toString(16).substring(2), the hex   *)
(* digits of a fraction: one digit (0.5 is "0.8"), the usual 13, or more   *)
(* after leading zeros.                                                    *)
(***************************************************************************)
sessionTimeout == 30
RandomBytesHex(k) == [i \in 1..64 |-> HexLower[((k * i + 2 * k) % 16) + 1]]
FractionLen == <<1, 13, 20>>
RandomFraction(k) ==
  [i \in 1..FractionLen[k] |-> HexLower[((k * i + 7) % 16) + 1]]

\* Number.prototype.toString(16)
RECURSIVE ToHex(_)
ToHex(n) ==
  IF n < 16 THEN <<HexLower[n + 1]>>
  ELSE ToHex(n \div 16) \o <<HexLower[(n % 16) + 1]>>

\* s.substring(0, n)
Substring0(s, n) == SubSeq(s, 1, IF Len(s) < n THEN Len(s) ELSE n)

\* generateSessionKey() at Date.now() = t with the random draw k, on a
\* platform with window.crypto ("webcrypto"), without it but with
\* require('crypto') ("node"), or with neither ("none")
generateSessionKey(platform, t, k) ==
  CASE platform = "webcrypto" -> RandomBytesHex(k)
    [] platform = "node" -> RandomBytesHex(k)
    [] platform = "none" ->
         LET timestamp == ToHex(t)
             random == RandomFraction(k)
         IN Substring0(timestamp \o random \o random \o random, 64)

\* variant: a session that has lasted exactly sessionTimeout is still valid
isSessionValid_Inclusive(cm, t) ==
  (t - cm.sessionStart) <= sessionTimeout * 60 * 1000

\* isSessionValid() at Date.now() = t: elapsed / 1000 / 60 < sessionTimeout,
\* the quotient being exact
isSessionValid(cm, t) ==
  (t - cm.sessionStart) < sessionTimeout * 60 * 1000

\* variant: the cached token is returned whatever the age of the session
CacheHit_IgnoresSession(cm, t) == Truthy(cm.config.csrfToken)

\* getCsrfToken(), line 111: the cached token is returned
CacheHit(cm, t) == Truthy(cm.config.csrfToken) /\ isSessionValid(cm, t)

\* what fetch(csrfTokenEndpoint) comes to: a response with ok and a body
\* {token}, a response that is not ok, or a rejection
FetchOk(token) == [kind |-> "ok", token |-> token]
FetchNotOk == [kind |-> "not ok", token |-> <<>>]
FetchRejected == [kind |-> "rejected", token |-> <<>>]
\* the request is on its way and the server has not answered it yet
Pending == [kind |-> "pending", token |-> <<>>]

\* variant: a call that finds a token cached by another call keeps it
FetchSettled_KeepsFirst(cm, response, key) ==
  IF response.kind = "ok"
    THEN IF Truthy(cm.config.csrfToken)
           THEN [cm |-> cm, returned |-> cm.config.csrfToken,
                 threw |-> FALSE, warned |-> FALSE]
           ELSE [cm |-> [cm EXCEPT !.config.csrfToken = Str(response.token)],
                 returned |-> Str(response.token), threw |-> FALSE,
                 warned |-> FALSE]
    ELSE [cm |-> [cm EXCEPT !.config.csrfToken = Str(key)],
          returned |-> Str(key), threw |-> FALSE, warned |-> TRUE]

\* getCsrfToken(), lines 116-133, once the fetch has come to response;
\* key is the generateSessionKey() of line 130
FetchSettled(cm, response, key) ==
  IF response.kind = "ok"
    THEN [cm |-> [cm EXCEPT !.config.csrfToken = Str(response.token)],
          returned |-> Str(response.token), threw |-> FALSE, warned |-> FALSE]
    ELSE [cm |-> [cm EXCEPT !.config.csrfToken = Str(key)],
          returned |-> Str(key), threw |-> FALSE, warned |-> TRUE]

\* variant: the reset leaves the cached token in place
resetSession_KeepsToken(cm, t, key) ==
  [config |-> [cm.config EXCEPT !.encryptionKey = key],
   sessionStart |-> t]

\* resetSession() at Date.now() = t; key is its generateSessionKey()
resetSession(cm, t, key) ==
  [config |-> [encryptionKey |-> key, csrfToken |-> Null],
   sessionStart |-> t]

(***************************************************************************)
(* The number helpers of src/assets/js/utils.js.  A JS number is           *)
(* [k, neg, whole, frac]: k is "fin" or "nan", whole the integer part of   *)
(* its magnitude and frac the decimal digits after the point, without      *)
(* trailing zeros (1.000 and 1 are the same number); -0 is taken for 0, as *)
(* === does.                                                               *)
(***************************************************************************)
NotANumber == [k |-> "nan", neg |-> FALSE, whole |-> 0, frac |-> <<>>]

RECURSIVE Significant(_)
Significant(f) ==
  IF f # <<>> /\ f[Len(f)] = "0"
    THEN Significant(SubSeq(f, 1, Len(f) - 1)) ELSE f

Value(neg, whole, frac) ==
  LET f == Significant(frac)
  IN [k |-> "fin", neg |-> neg /\ (whole # 0 \/ f # <<>>),
      whole |-> whole, frac |-> f]

\* the JS number that is the integer n
Integer(n) == Value(n < 0, IF n < 0 THEN 0 - n ELSE n, <<>>)

\* the digits s begins with
RECURSIVE DigitPrefix(_)
DigitPrefix(s) ==
  IF s # <<>> /\ s[1] \in DigitChars
    THEN <<s[1]>> \o DigitPrefix(Tail(s)) ELSE <<>>

Signed(s) == s # <<>> /\ s[1] \in {"-", "+"}
Unsigned(s) == IF Signed(s) THEN Tail(s) ELSE s

\* parseInt(s, 10) for s without leading white space
parseInt(s) ==
  LET digits == DigitPrefix(Unsigned(s))
  IN IF digits = <<>> THEN NotANumber
     ELSE Value(Signed(s) /\ s[1] = "-", DecimalValue(digits, 1, 0), <<>>)

\* parseFloat(s) for s without leading white space and without exponent
parseFloat(s) ==
  LET body == Unsigned(s)
      whole == DigitPrefix(body)
      rest == SubSeq(body, Len(whole) + 1, Len(body))
      frac == IF rest # <<>> /\ rest[1] = "."
                THEN DigitPrefix(Tail(rest)) ELSE <<>>
  IN IF whole = <<>> /\ frac = <<>> THEN NotANumber
     ELSE Value(Signed(s) /\ s[1] = "-",
                IF whole = <<>> THEN 0 ELSE DecimalValue(whole, 1, 0), frac)

\* s.trim()
RECURSIVE Trim(_)
Trim(s) ==
  IF s # <<>> /\ s[1] = " " THEN Trim(Tail(s))
  ELSE IF s # <<>> /\ s[Len(s)] = " " THEN Trim(SubSeq(s, 1, Len(s) - 1))
  ELSE s

\* s.replace(/[^...]/g, ''): the characters of s that are in keep
Keep(s, keep) == SelectSeq(s, LAMBDA c : c \in keep)

\* toNumeric(value), lines 38-52; a value of type number is an integer here
toNumeric(value) ==
  CASE value.t \in {"null", "undefined"} -> NotANumber
    [] value.t = "number" -> Integer(value.n)
    [] value.t = "string" ->
         LET raw == SelectSeq(Trim(value.s), LAMBDA c : c # ",")
             dotCount == Len(SelectSeq(raw, LAMBDA c : c = "."))
         IN IF dotCount = 1
              THEN parseFloat(Keep(raw, DigitChars \cup {".", "-"}))
              ELSE parseInt(Keep(raw, DigitChars \cup {"-"}))

\* the digits d in groups of three, with the separator of vi-VN
RECURSIVE Grouped(_)
Grouped(d) ==
  IF Len(d) <= 3 THEN d
  ELSE Grouped(SubSeq(d, 1, Len(d) - 3)) \o <<".">>
         \o SubSeq(d, Len(d) - 2, Len(d))

\* numeric.toLocaleString('vi-VN') for a number of at most three decimals
toLocaleString(numeric) ==
  (IF numeric.neg THEN <<"-">> ELSE <<>>)
    \o Grouped(NumberToString(numeric.whole))
    \o (IF numeric.frac = <<>> THEN <<>> ELSE <<",">> \o numeric.frac)

formatNumber(value) ==
  LET numeric == toNumeric(value)
  IN IF numeric.k = "nan" THEN <<>> ELSE toLocaleString(numeric)

unformatNumber(value) ==
  LET numeric == toNumeric(value)
  IN IF numeric.k = "nan" THEN Integer(0) ELSE numeric

(***************************************************************************)
(* The Logger of src/assets/js/logger.js.  An object lg is                 *)
(* [isDevelopment, currentLevel, logHistory]; an entry of the history is   *)
(* [level, message].                                                       *)
(***************************************************************************)
levels == [DEBUG |-> 0, INFO |-> 1, WARN |-> 2, ERROR |-> 3, NONE |-> 4]
maxHistorySize == 100

\* new Logger() on a page where detectEnvironment() returns isDevelopment
NewLogger(isDevelopment) ==
  [isDevelopment |-> isDevelopment,
   currentLevel |-> IF isDevelopment THEN levels.DEBUG ELSE levels.ERROR,
   logHistory |-> <<>>]

\* variant: a full history refuses the new entry
addToHistory_DropsNewest(lg, level, message) ==
  LET pushed == Append(lg.logHistory, [level |-> level, message |-> message])
  IN [lg EXCEPT !.logHistory =
        IF Len(pushed) > maxHistorySize THEN lg.logHistory ELSE pushed]

\* addToHistory(level, message, data): push, then shift when over the size
addToHistory(lg, level, message) ==
  LET pushed == Append(lg.logHistory, [level |-> level, message |-> message])
  IN [lg EXCEPT !.logHistory =
        IF Len(pushed) > maxHistorySize THEN Tail(pushed) ELSE pushed]

\* debug(), info(), warn() and error(), called from the page (_isLogging is
\* false then)
debug(lg, message) ==
  IF lg.currentLevel <= levels.DEBUG
    THEN addToHistory(lg, "DEBUG", message) ELSE lg
info(lg, message) ==
  IF lg.currentLevel <= levels.INFO
    THEN addToHistory(lg, "INFO", message) ELSE lg
warn(lg, message) ==
  IF lg.currentLevel <= levels.WARN
    THEN addToHistory(lg, "WARN", message) ELSE lg
error(lg, message) ==
  IF lg.currentLevel <= levels.ERROR
    THEN addToHistory(lg, "ERROR", message) ELSE lg

(***************************************************************************)
(* The backend of src/assets/js/email-config.js.  An entry of              *)
(* backend.applications is [id, timestamp], timestamp being a JS value.    *)
(***************************************************************************)
\* JSON.stringify(list): a property whose value is undefined is left out
Stringify(list) ==
  [i \in 1..Len(list) |->
     IF list[i].timestamp = Undefined THEN [id |-> list[i].id]
     ELSE [id |-> list[i].id, timestamp |-> list[i].timestamp.n]]

\* JSON.parse(text)
Parse(text) ==
  [i \in 1..Len(text) |->
     [id |-> text[i].id,
      timestamp |-> IF "timestamp" \in DOMAIN text[i]
                      THEN Num(text[i].timestamp) ELSE Undefined]]

\* CryptoJS.AES.encrypt(text, key).toString(), salt being its random salt,
\* and CryptoJS.AES.decrypt(...).toString(CryptoJS.enc.Utf8): the text under
\* the key it was encrypted with, nothing under another key
Encrypt(text, key, salt) == [salt |-> salt, key |-> key, text |-> text]
Decrypt(encrypted, key) ==
  IF encrypted.key = key THEN encrypted.text ELSE <<>>

\* saveApplication(data) at Date.now() = t
saveApplication(list, data, t, key, salt) ==
  LET pushed == Append(list, [data EXCEPT !.timestamp = Num(t)])
  IN [applications |-> pushed,
      stored |-> Encrypt(Stringify(pushed), key, salt)]

\* variant: an entry of exactly sessionTimeout minutes is kept
clearExpiredSessions_Inclusive(list, t, key, salt) ==
  LET timeout == sessionTimeout * 60 * 1000
      kept == SelectSeq(list, LAMBDA app :
                Truthy(app.timestamp) /\ (t - app.timestamp.n) <= timeout)
  IN [applications |-> kept,
      stored |-> Encrypt(Stringify(kept), key, salt)]

\* clearExpiredSessions() at Date.now() = t
clearExpiredSessions(list, t, key, salt) ==
  LET timeout == sessionTimeout * 60 * 1000
      kept == SelectSeq(list, LAMBDA app :
                Truthy(app.timestamp) /\ (t - app.timestamp.n) < timeout)
  IN [applications |-> kept,
      stored |-> Encrypt(Stringify(kept), key, salt)]

(***************************************************************************)
(* State.                                                                  *)
(***************************************************************************)
VARIABLES
  now,          \* Date.now()
  CSRF_SECRET,  \* the process-wide secret
  issued,       \* the tokens GET /api/csrf-token has returned so far,
                \* each with the time of its issuance: [token, at]
  req,          \* the request being answered (NoRequest when none is)
  res           \* its response, until the client has received it

\* the start of the server process
VARIABLES
  env,          \* process.env: [NODE_ENV, CSRF_SECRET]
  phase,        \* "starting", then "loaded" or, when the module body threw,
                \* "failed"
  warned,       \* console.warn was called with the ephemeral-secret message
  routes        \* the routes registered on app

\* the page with email-config.js (its Date.now() is now)
VARIABLES
  rateLimit,    \* the object rateLimit: [attempts, lastAttempt]
  checks,       \* the calls of rateLimit.check() so far, in order: the time
                \* of the call, the object before and after it, the result
  queued        \* the event handlers that are waiting to call check()

\* the limiter of the server
VARIABLES
  buckets,      \* the store of the limiter: remote address -> [hits,
                \* resetTime]
  traffic,      \* per remote address, the requests to /api/ since the first
                \* of them that came 60 s or more after the one that opened
                \* the window before: [start, sent, handled]
  answer        \* the answer to the last request: [ip, path, status, handled]

\* the page with config.js (its Date.now() is now)
VARIABLES
  platform,     \* what the page's runtime offers: "webcrypto", "node", "none"
  configManager,\* the singleton: [config |-> [encryptionKey, csrfToken],
                \* sessionStart]
  inflight,     \* the calls of getCsrfToken() awaiting their fetch, oldest first
  done          \* the last call that ran on configManager: what it was, when,
                \* the object before it, whether it fetched, what it returned

serverVars == <<now, CSRF_SECRET, issued, req, res>>
bootVars == <<env, phase, warned, routes>>
limitVars == <<rateLimit, checks, queued>>
apiVars == <<buckets, traffic, answer>>
configVars == <<platform, configManager, inflight, done>>

VARIABLES
  applications, \* backend.applications: the entries held, oldest first
  localStorage, \* what localStorage holds under 'loanApplications'
  saved,        \* the last call on backend: [op, at, before]
  logger,       \* window.Logger: [isDevelopment, currentLevel, logHistory]
  logged,       \* the calls on the Logger so far: [script, calls, recorded]
  number        \* a number, its formatNumber() and the unformatNumber() of
                \* that: [n, text, back]

toolVars == <<applications, localStorage, saved, logger, logged, number>>
vars == <<serverVars, bootVars, limitVars, apiVars, configVars, toolVars>>

NoRequest ==
  [method |-> "", header |-> Undefined, bodyToken |-> Undefined,
   csrfToken |-> Undefined]
Get == [NoRequest EXCEPT !.method = "GET"]
Post(h, b, c) ==
  [method |-> "POST", header |-> h, bodyToken |-> b, csrfToken |-> c]

\* process.env.CSRF_SECRET, or crypto.randomBytes(32).toString('hex')
EnvSecret == <<"g", "i", "n", "y">>
EphemeralSecret == [i \in 1..HexDigestLen |-> HexLower[((7 * i) % 16) + 1]]
Secrets == {EnvSecret, EphemeralSecret}

\* values of crypto.randomBytes(16).toString('hex')
NonceOf(k) == [i \in 1..NonceHexLen |-> HexLower[((k * i + k) % 16) + 1]]
Nonces == {NonceOf(3), NonceOf(5)}

Instants ==
  (0..Slack)
    \cup {CSRF_TOKEN_EXPIRY_MS + d : d \in (-1)..Slack}
    \cup {31 * 60 * 1000}

(***************************************************************************)
(* The requests a client may send: the strings it can build from the       *)
(* tokens it was given, strings signed under a key (the server's or        *)
(* another one), and values that are no token at all.                      *)
(***************************************************************************)
InfinityStr == <<"I", "n", "f", "i", "n", "i", "t", "y">>
Sign(key, nonce, expiryStr) ==
  Join(Join(nonce, expiryStr), Hmac(key, Join(nonce, expiryStr)))

FlipPositions == 1..MaxFlipPos
\* s with the character at position i replaced by c
FlipAt(s, i, c) == [s EXCEPT ![i] = c]
\* the tokens that differ from tok in one character of its signature
Flips(tok) ==
  LET p == Split(tok)
  IN {Join(Join(p[1], p[2]), FlipAt(p[3], i, c)) :
        i \in FlipPositions, c \in Chars \ {":"}} \ {tok}

Mutations(tok) ==
  LET p == Split(tok)
      n == p[1]
      e == p[2]
      g == p[3]
  IN Flips(tok) \cup
     { tok,
       tok \o <<":", "0">>,
       Join(n, e),
       Join(Join(n, e), <<>>),
       Join(Join(<<>>, e), g),
       Join(Join(n, <<>>), g),
       Join(Join(n, e), SubSeq(g, 1, Len(g) - 1)),
       Join(Join(n, e), g \o <<"0">>),
       Join(Join(n, e), FlipAt(g, 1, ":")),
       Join(Join(n, InfinityStr), g) }

ForgedExpiries(t) ==
  { InfinityStr, <<"1", "g">>, <<"1", "e", "9">>, <<"1", "E", "1">>,
    NumberToString(t), NumberToString(t + 1) }
Forged(key, t) ==
  {Sign(key, NonceOf(3), e) : e \in ForgedExpiries(t)}
    \cup {Sign(key, <<>>, NumberToString(t + 1))}

Candidates ==
  UNION {Mutations(i.token) : i \in issued}
    \cup UNION {Forged(key, now) : key \in Secrets}
    \cup {<<>>, <<"g">>, <<":", ":">>}

HeaderValues ==
  {Undefined, Str(<<>>), Str(<<"g">>)} \cup {Str(i.token) : i \in issued}
BodyValues == HeaderValues \cup {Num(0), Num(7)}
LastValues == {Undefined} \cup {Str(i.token) : i \in issued}
Requests ==
  {Post(Str(c), Undefined, Undefined) : c \in Candidates}
    \cup {Post(h, b, c) :
            h \in HeaderValues, b \in BodyValues, c \in LastValues}

(***************************************************************************)
(* Actions.                                                                *)
(***************************************************************************)
Idle == req = NoRequest

\* the environment a loaded server with the secret s was started in
EnvOf(s) ==
  [NODE_ENV |-> "development",
   CSRF_SECRET |-> IF s = EnvSecret THEN Str(s) ELSE Undefined]

\* no page has loaded email-config.js
NoPage ==
  /\ rateLimit = FreshLimit
  /\ checks = <<>>
  /\ queued = {}

RemoteAddresses == {"10.0.0.1", "10.0.0.2"}
NoTraffic == [start |-> 0, sent |-> 0, handled |-> 0]
NoAnswer == [ip |-> "", path |-> <<>>, status |-> 0, handled |-> FALSE]

\* the limiter has seen no request
NoHits ==
  /\ buckets = [ip \in RemoteAddresses |-> NoBucket]
  /\ traffic = [ip \in RemoteAddresses |-> NoTraffic]
  /\ answer = NoAnswer

\* a call suspended at the await of line 116: how many other calls were
\* suspended when it was made, whether a token was cached then, and what
\* its fetch has come to so far
NoFetch == [others |-> 0, cached |-> FALSE, response |-> Pending]
NoCall ==
  [op |-> "", at |-> 0, fetched |-> FALSE, response |-> "",
   returned |-> Undefined, threw |-> FALSE, others |-> 0,
   fetch |-> NoFetch,
   before |-> [config |-> [encryptionKey |-> <<>>, csrfToken |-> Null],
               sessionStart |-> 0]]

\* no call on backend, none on the Logger, no number at hand
NoSave == [op |-> "", at |-> 0, before |-> <<>>, key |-> <<>>]
NoBackend ==
  /\ applications = <<>>
  /\ localStorage = Null
  /\ saved = NoSave
NoLogger ==
  /\ logger = [isDevelopment |-> FALSE, currentLevel |-> 0, logHistory |-> <<>>]
  /\ logged = [script |-> <<>>, calls |-> 0, recorded |-> <<>>]
NoValue == [k |-> "none", neg |-> FALSE, whole |-> 0, frac |-> <<>>]
NoNumber == [n |-> 0, text |-> Undefined, back |-> NoValue]
NoTools ==
  /\ NoBackend
  /\ NoLogger
  /\ number = NoNumber

\* no page has loaded config.js
NoConfig ==
  /\ platform = ""
  /\ configManager = NoCall.before
  /\ inflight = <<>>
  /\ done = NoCall

\* the server, loaded
Init ==
  /\ now = 0
  /\ CSRF_SECRET \in Secrets
  /\ issued = {}
  /\ req = NoRequest
  /\ res = NoResponse
  /\ env = EnvOf(CSRF_SECRET)
  /\ phase = "loaded"
  /\ warned = Startup(env, CSRF_SECRET).warned
  /\ routes = Routes
  /\ NoPage
  /\ NoHits
  /\ NoTools
  /\ NoConfig

\* time passes between requests
Tick ==
  /\ Idle
  /\ \E t \in Instants : t > now /\ now' = t
  /\ UNCHANGED <<CSRF_SECRET, issued, req, res>>
  /\ UNCHANGED <<bootVars, toolVars, limitVars, apiVars, configVars>>

\* GET /api/csrf-token
GetCsrfToken ==
  /\ RouteCsrfToken \in routes
  /\ Idle
  /\ Cardinality(issued) < MaxIssued
  /\ \E nonce \in Nonces :
       LET token == issueCsrfToken(nonce, now, CSRF_SECRET)
       IN /\ req' = Get
          /\ res' = Ok(token)
          /\ issued' = issued \cup {[token |-> token, at |-> now]}
  /\ UNCHANGED <<now, CSRF_SECRET>>
  /\ UNCHANGED <<bootVars, toolVars, limitVars, apiVars, configVars>>

\* POST /api/ekyc/error-report, up to the call of the protected handler
PostErrorReport ==
  /\ RouteErrorReport \in routes
  /\ Idle
  /\ \E r \in Requests :
       /\ req' = r
       /\ res' = verifyCsrfToken(r, now, CSRF_SECRET)
  /\ UNCHANGED <<now, CSRF_SECRET, issued>>
  /\ UNCHANGED <<bootVars, toolVars, limitVars, apiVars, configVars>>

\* the client has received the response
Receive ==
  /\ ~Idle
  /\ req' = NoRequest
  /\ res' = NoResponse
  /\ UNCHANGED <<now, CSRF_SECRET, issued>>
  /\ UNCHANGED <<bootVars, toolVars, limitVars, apiVars, configVars>>

Next == Tick \/ GetCsrfToken \/ PostErrorReport \/ Receive

Spec == Init /\ [][Next]_vars

(***************************************************************************)
(* The server from the start of its process.  crypto.randomBytes(32) is    *)
(* drawn only when the environment has no secret.                          *)
(***************************************************************************)
Unset == <<>>
NodeEnvs == {"production", "development", ""}
EnvSecrets == {Undefined, Str(<<>>), Str(EnvSecret)}
Envs == [NODE_ENV : NodeEnvs, CSRF_SECRET : EnvSecrets]
EphemeralSecrets == {EphemeralSecret}

InitBoot ==
  /\ now = 0
  /\ CSRF_SECRET = Unset
  /\ issued = {}
  /\ req = NoRequest
  /\ res = NoResponse
  /\ env \in Envs
  /\ phase = "starting"
  /\ warned = FALSE
  /\ routes = {}
  /\ NoPage
  /\ NoHits
  /\ NoTools
  /\ NoConfig

\* node src/server/index.js: lines 11-21, then the routes of lines 36-85
Start ==
  /\ phase = "starting"
  /\ \E random \in EphemeralSecrets :
       LET s == Startup(env, random)
       IN /\ CSRF_SECRET' = s.secret
          /\ warned' = s.warned
          /\ phase' = IF s.threw THEN "failed" ELSE "loaded"
          /\ routes' = IF s.threw THEN {} ELSE Routes
  /\ UNCHANGED <<now, issued, req, res, env>>
  /\ UNCHANGED <<limitVars, apiVars, configVars, toolVars>>

NextBoot == Start \/ GetCsrfToken \/ PostErrorReport \/ Receive

SpecBoot == InitBoot /\ [][NextBoot]_vars

(***************************************************************************)
(* The page that has loaded email-config.js.  Event handlers call          *)
(* rateLimit.check(); several may be waiting in the event loop at once,    *)
(* and the runtime runs them one after the other, each call to its end     *)
(* (check() has no await).  Date.now() is far more than 60 s after the     *)
(* origin of lastAttempt = 0 when the page loads.                          *)
(***************************************************************************)
LoadTime == 2 * 60000
\* the clock visits these offsets from the time of load and then, Steps
\* times, a minute and more after the last of them
LimitOffsets == {0, 50000, 60000, 60001, 70000}
LimitInstants ==
  {LoadTime + d : d \in LimitOffsets}
    \cup {LoadTime + 70000 + k * 60001 : k \in 1..Steps}
Handlers == {"first", "second"}

\* no server is looked at
NoServer ==
  /\ CSRF_SECRET = Unset
  /\ issued = {}
  /\ req = NoRequest
  /\ res = NoResponse
  /\ env = [NODE_ENV |-> "", CSRF_SECRET |-> Undefined]
  /\ phase = "starting"
  /\ warned = FALSE
  /\ routes = {}

InitLimit ==
  /\ now = LoadTime
  /\ NoServer
  /\ NoHits
  /\ NoTools
  /\ NoConfig
  /\ rateLimit = FreshLimit
  /\ checks = <<>>
  /\ queued = {}

\* time passes on the page
LimitTick ==
  /\ \E t \in LimitInstants : t > now /\ now' = t
  /\ UNCHANGED <<CSRF_SECRET, issued, req, res, bootVars, toolVars, limitVars>>
  /\ UNCHANGED <<apiVars, configVars>>

\* an event whose handler calls rateLimit.check() is queued
Enqueue ==
  /\ \E h \in Handlers \ queued : queued' = queued \cup {h}
  /\ UNCHANGED <<serverVars, bootVars, toolVars, rateLimit, checks, apiVars>>
  /\ UNCHANGED configVars

\* the runtime runs one waiting handler: rateLimit.check()
Check ==
  /\ Len(checks) < MaxChecks
  /\ \E h \in queued :
       LET c == check(rateLimit, now)
       IN /\ rateLimit' = c.after
          /\ checks' = Append(checks,
                [at |-> now, before |-> rateLimit, after |-> c.after,
                 ret |-> c.ret, alert |-> c.alert, reset |-> c.reset])
          /\ queued' = queued \ {h}
  /\ UNCHANGED <<serverVars, bootVars, toolVars, apiVars, configVars>>

NextLimit == LimitTick \/ Enqueue \/ Check

SpecLimit == InitLimit /\ [][NextLimit]_vars

(***************************************************************************)
(* The loaded server behind its limiter: requests of two remote addresses  *)
(* to a path under /api/ and to /health, up to the call of the route       *)
(* handler.  A remote address stops sending once it has been refused       *)
(* Excess times in a window.                                               *)
(***************************************************************************)
ApiInstants == {0, windowMs - 1, windowMs}
ApiPaths == {PathCsrfToken, PathHealth}

ServerLoaded ==
  /\ CSRF_SECRET = EnvSecret
  /\ issued = {}
  /\ req = NoRequest
  /\ res = NoResponse
  /\ env = EnvOf(EnvSecret)
  /\ phase = "loaded"
  /\ warned = FALSE
  /\ routes = Routes

InitApi ==
  /\ now = 0
  /\ ServerLoaded
  /\ NoPage
  /\ NoHits
  /\ NoTools
  /\ NoConfig

ApiTick ==
  /\ \E t \in ApiInstants : t > now /\ now' = t
  /\ UNCHANGED <<CSRF_SECRET, issued, req, res, bootVars, toolVars, limitVars, apiVars>>
  /\ UNCHANGED configVars

\* the requests of ip to /api/ since its window opened, this one included
Counted(tr, t, handled) ==
  LET cur == IF tr.sent = 0 \/ t - tr.start >= 60000
               THEN [start |-> t, sent |-> 0, handled |-> 0]
               ELSE tr
  IN [cur EXCEPT !.sent = @ + 1,
                 !.handled = @ + (IF handled THEN 1 ELSE 0)]

ApiRequest ==
  /\ \E ip \in RemoteAddresses, path \in ApiPaths :
       LET d == Dispatch(buckets, ip, path, now)
       IN /\ UnderApi(path) => buckets[ip].hits < max + Excess
             \/ buckets[ip].resetTime <= now
          /\ buckets' = d.buckets
          /\ answer' = [ip |-> ip, path |-> path, status |-> d.status,
                         handled |-> d.handled]
          /\ traffic' = IF path[1] = "api"
                          THEN [traffic EXCEPT
                                  ![ip] = Counted(@, now, d.handled)]
                          ELSE traffic
  /\ UNCHANGED <<serverVars, bootVars, toolVars, limitVars, configVars>>

NextApi == ApiTick \/ ApiRequest

SpecApi == InitApi /\ [][NextApi]_vars

(***************************************************************************)
(* The page that has loaded config.js.  The page's scripts call            *)
(* getCsrfToken() and resetSession() on the singleton at any time; a call  *)
(* of getCsrfToken() that fetches is suspended at its await until the      *)
(* fetch has come to a response, and the clock and the other calls go on   *)
(* meanwhile.  /api/csrf-token is answered by a server whose secret is     *)
(* EnvSecret and whose clock is the page's.  A random draw never gives a   *)
(* value the object holds at the time.                                     *)
(***************************************************************************)
\* the callers of getCsrfToken() that may be suspended at the same time
Callers == {"first", "second"}
\* the address whose requests go through the whole stack
GateAddress == "10.0.0.1"
\* what it posts to the error-report route: no token, a token the server
\* issued at its start, or a token of the page's own making
GateRequests ==
  {Post(Undefined, Undefined, Undefined),
   Post(Str(issueCsrfToken(NonceOf(3), 0, EnvSecret)), Undefined, Undefined),
   Post(Undefined, Str(<<"0", ":", "0", ":", "0">>), Undefined)}

\* GET /api/csrf-token or POST /api/ekyc/error-report from the address
GateRequest ==
  /\ buckets[GateAddress].hits < max + Excess
       \/ buckets[GateAddress].resetTime <= now
  /\ \E path \in {PathCsrfToken, PathErrorReport} :
       \E r \in IF path = PathErrorReport THEN GateRequests ELSE {Get},
          nonce \in Nonces :
         LET h == Handle(buckets, GateAddress, path, r, now, CSRF_SECRET)
         IN /\ buckets' = h.buckets
            /\ req' = r
            /\ res' = IF path = PathCsrfToken /\ h.ran
                        THEN Ok(issueCsrfToken(nonce, now, CSRF_SECRET))
                        ELSE h.res
            /\ answer' = [ip |-> GateAddress, path |-> path,
                           status |-> h.status, handled |-> h.ran]
            /\ traffic' = [traffic EXCEPT
                             ![GateAddress] = Counted(@, now, h.status # 429)]
  /\ UNCHANGED <<now, CSRF_SECRET, issued>>
  /\ UNCHANGED <<bootVars, toolVars, limitVars, configVars>>

NextGate == ApiTick \/ GateRequest

SpecGate == InitApi /\ [][NextGate]_vars

Platforms == {"webcrypto", "node", "none"}
Draws == 1..Len(FractionLen)
Minute == 60 * 1000
ConfigInstants ==
  {m * Minute : m \in {0, 10, 30}} \cup {sessionTimeout * Minute + 1}

Held(cm) == {cm.config.encryptionKey} \cup
            (IF cm.config.csrfToken = Null THEN {}
             ELSE {cm.config.csrfToken.s})
\* the values generateSessionKey() may return at Date.now() = t
FreshKeys(cm, t) ==
  {generateSessionKey(platform, t, k) : k \in Draws} \ Held(cm)

\* new ConfigManager() at load
InitConfig ==
  /\ now = 0
  /\ NoServer
  /\ NoPage
  /\ NoHits
  /\ NoTools
  /\ platform \in Platforms
  /\ configManager =
       [config |-> [encryptionKey |-> generateSessionKey(platform, now, 1),
                    csrfToken |-> Null],
        sessionStart |-> now]
  /\ inflight = <<>>
  /\ done = NoCall

ConfigTick ==
  /\ \E t \in ConfigInstants : t > now /\ now' = t
  /\ UNCHANGED <<CSRF_SECRET, issued, req, res, bootVars, toolVars, limitVars, apiVars>>
  /\ UNCHANGED configVars

\* getCsrfToken() is called: lines 109-116, up to the await
CallGetCsrfToken ==
  /\ IF CacheHit(configManager, now)
       THEN /\ done' = [NoCall EXCEPT !.op = "getCsrfToken", !.at = now,
                           !.before = configManager,
                           !.returned = configManager.config.csrfToken]
            /\ UNCHANGED inflight
       ELSE /\ Len(inflight) < Cardinality(Callers)
            /\ inflight' = Append(inflight,
                 [NoFetch EXCEPT
                    !.others = Len(inflight),
                    !.cached = Truthy(configManager.config.csrfToken)])
            /\ done' = [NoCall EXCEPT !.op = "getCsrfToken", !.at = now,
                           !.before = configManager, !.fetched = TRUE,
                           !.others = Len(inflight)]
  /\ UNCHANGED <<serverVars, bootVars, toolVars, limitVars, apiVars>>
  /\ UNCHANGED <<platform, configManager>>

\* the tokens the page holds or is about to receive
TokensHeld ==
  Held(configManager) \cup {inflight[i].response.token : i \in 1..Len(inflight)}

\* the tokens the server may issue at Date.now() = t: its nonce is random,
\* so the token is none of those the page holds
FreshTokens(t) ==
  LET T == {issueCsrfToken(n, t, EnvSecret) : n \in Nonces} \ TokensHeld
  IN IF T = {} THEN {}
     ELSE {CHOOSE token \in T : \A other \in T : Len(other) >= 0}

\* the server answers one request for /api/csrf-token with the token it
\* issues at its Date.now()
ServerAnswers ==
  /\ \E i \in 1..Len(inflight) :
       /\ inflight[i].response = Pending
       /\ \E response \in
               {FetchOk(token) : token \in FreshTokens(now)} :
            inflight' = [inflight EXCEPT ![i].response = response]
  /\ UNCHANGED <<serverVars, bootVars, toolVars, limitVars, apiVars>>
  /\ UNCHANGED <<platform, configManager, done>>

\* s without its i-th element
Without(s, i) == SubSeq(s, 1, i - 1) \o SubSeq(s, i + 1, Len(s))

\* what the fetch of a suspended call may settle with: the token the
\* server has answered with or, when there is none, a status that is not
\* ok or a rejection
Outcomes(f) ==
  IF f.response = Pending THEN {FetchNotOk, FetchRejected} ELSE {f.response}

\* the fetch of one suspended call settles: lines 116-133
FetchSettles ==
  /\ \E i \in 1..Len(inflight), key \in FreshKeys(configManager, now) :
     \E response \in Outcomes(inflight[i]) :
       LET r == FetchSettled(configManager, response, key)
       IN /\ configManager' = r.cm
          /\ done' = [NoCall EXCEPT !.op = "settled", !.at = now,
                         !.before = configManager, !.fetched = TRUE,
                         !.response = response.kind,
                         !.returned = r.returned, !.threw = r.threw,
                         !.fetch = inflight[i]]
          /\ inflight' = Without(inflight, i)
  /\ UNCHANGED <<serverVars, bootVars, toolVars, limitVars, apiVars, platform>>

\* resetSession() is called
ResetSession ==
  /\ \E key \in FreshKeys(configManager, now) :
       configManager' = resetSession(configManager, now, key)
  /\ done' = [NoCall EXCEPT !.op = "resetSession", !.at = now,
                 !.before = configManager]
  /\ UNCHANGED <<serverVars, bootVars, toolVars, limitVars, apiVars>>
  /\ UNCHANGED <<platform, inflight>>

\* form.js, line 38: the token sent when the page has no configManager
FallbackLiteral ==
  <<"f", "a", "l", "l", "b", "a", "c", "k", "-", "t", "o", "k", "e", "n">>

\* the tokens a page may send when no fetch of a token has succeeded: the
\* one getCsrfToken() has cached, or the literal
FormTokens ==
  {Str(FallbackLiteral)} \cup
    (IF configManager.config.csrfToken = Null THEN {}
     ELSE {configManager.config.csrfToken})

\* a request to a protected route carrying the token of the page in the
\* header, in _token or in csrfToken, and the answer of verifyCsrfToken
SubmitForm ==
  /\ \E token \in FormTokens :
       \E r \in {Post(token, Undefined, Undefined),
                 Post(Undefined, token, Undefined),
                 Post(Undefined, Undefined, token)} :
         /\ req' = r
         /\ res' = verifyCsrfToken(r, now, CSRF_SECRET)
  /\ UNCHANGED <<now, CSRF_SECRET, issued>>
  /\ UNCHANGED <<bootVars, toolVars, limitVars, apiVars, configVars>>

\* a page whose fetches of a token all fail, and the server it posts to
InitFallback ==
  /\ now = 0
  /\ CSRF_SECRET \in Secrets
  /\ issued = {}
  /\ req = NoRequest
  /\ res = NoResponse
  /\ env = EnvOf(CSRF_SECRET)
  /\ phase = "loaded"
  /\ warned = Startup(env, CSRF_SECRET).warned
  /\ routes = Routes
  /\ NoPage
  /\ NoHits
  /\ NoTools
  /\ platform \in Platforms
  /\ configManager =
       [config |-> [encryptionKey |-> generateSessionKey(platform, now, 1),
                    csrfToken |-> Null],
        sessionStart |-> now]
  /\ inflight = <<>>
  /\ done = NoCall

NextFallback == ConfigTick \/ CallGetCsrfToken \/ FetchSettles \/ SubmitForm

SpecFallback == InitFallback /\ [][NextFallback]_vars

\* the amounts a page formats: units, thousands and millions
Scales == {1, 37, 1000, 1001, 1000000, 1000003}
NumberInputs == {u * s : u \in 0..MaxUnit, s \in Scales}

InitNumber ==
  /\ now = 0
  /\ NoServer
  /\ NoPage
  /\ NoHits
  /\ NoConfig
  /\ NoBackend
  /\ NoLogger
  /\ \E n \in NumberInputs : number = [NoNumber EXCEPT !.n = n]

\* formatNumber(n) for the number n
FormatNumber ==
  /\ number.text = Undefined
  /\ number' = [number EXCEPT !.text = Str(formatNumber(Num(number.n)))]
  /\ UNCHANGED <<serverVars, bootVars, limitVars, apiVars, configVars>>
  /\ UNCHANGED <<applications, localStorage, saved, logger, logged>>

\* unformatNumber(text) for the text formatNumber returned
UnformatNumber ==
  /\ number.text # Undefined
  /\ number.back = NoValue
  /\ number' = [number EXCEPT !.back = unformatNumber(number.text)]
  /\ UNCHANGED <<serverVars, bootVars, limitVars, apiVars, configVars>>
  /\ UNCHANGED <<applications, localStorage, saved, logger, logged>>

NextNumber == FormatNumber \/ UnformatNumber

SpecNumber == InitNumber /\ [][NextNumber]_vars

\* the levels a page logs at, one after the other and over again
Scripts ==
  {<<"DEBUG">>, <<"INFO">>, <<"WARN">>, <<"ERROR">>,
   <<"DEBUG", "INFO", "WARN", "ERROR">>, <<"ERROR", "ERROR", "WARN">>}

\* new Logger() at load, in development or in production
InitLogger ==
  /\ now = 0
  /\ NoServer
  /\ NoPage
  /\ NoHits
  /\ NoConfig
  /\ NoBackend
  /\ number = NoNumber
  /\ \E isDevelopment \in BOOLEAN : logger = NewLogger(isDevelopment)
  /\ \E script \in Scripts :
       logged = [script |-> script, calls |-> 0, recorded |-> <<>>]

\* the level of the next call
Due == logged.script[(logged.calls % Len(logged.script)) + 1]

\* the page calls the method of the level with the number of the call as
\* message; lg is the Logger after it
Call(level, lg) ==
  /\ Due = level
  /\ Len(logged.recorded) < maxHistorySize + Overflow
  /\ logged.calls < Len(logged.script) * (maxHistorySize + Overflow)
  /\ logger' = lg
  /\ logged' = [logged EXCEPT
       !.calls = @ + 1,
       !.recorded = IF logger.currentLevel <= levels[level]
                      THEN Append(@, [level |-> level,
                                      message |-> logged.calls + 1])
                      ELSE @]
  /\ UNCHANGED <<serverVars, bootVars, limitVars, apiVars, configVars>>
  /\ UNCHANGED <<applications, localStorage, saved, number>>

Debug == Call("DEBUG", debug(logger, logged.calls + 1))
Info == Call("INFO", info(logger, logged.calls + 1))
Warn == Call("WARN", warn(logger, logged.calls + 1))
Error == Call("ERROR", error(logger, logged.calls + 1))

NextLogger == Debug \/ Info \/ Warn \/ Error

SpecLogger == InitLogger /\ [][NextLogger]_vars

\* the page loads some time after the origin of the clock; the clock then
\* visits the ages around sessionTimeout
BackendLoad == Minute
BackendInstants ==
  {BackendLoad + m * Minute : m \in {0, 10, 30, 40}}
    \cup {BackendLoad + sessionTimeout * Minute + 1}
Salts == {1, 2}
\* an entry that init() has read from localStorage and that carries no
\* timestamp
Untimed == [id |-> 0, timestamp |-> Undefined]

\* config.js and email-config.js have loaded: backend.init(), lines 69-88
InitBackend ==
  /\ now = BackendLoad
  /\ NoServer
  /\ NoPage
  /\ NoHits
  /\ platform = "webcrypto"
  /\ configManager =
       [config |-> [encryptionKey |-> generateSessionKey(platform, now, 1),
                    csrfToken |-> Null],
        sessionStart |-> now]
  /\ inflight = <<>>
  /\ done = NoCall
  /\ applications \in {<<>>, <<Untimed>>}
  /\ localStorage =
       IF applications = <<>> THEN Null
       ELSE Encrypt(Stringify(applications),
                    configManager.config.encryptionKey, 1)
  /\ saved = NoSave
  /\ NoLogger
  /\ number = NoNumber

BackendTick ==
  /\ \E t \in BackendInstants : t > now /\ now' = t
  /\ UNCHANGED <<CSRF_SECRET, issued, req, res, bootVars, limitVars, apiVars>>
  /\ UNCHANGED <<configVars, toolVars>>

\* backend.saveApplication(data)
SaveApplication ==
  /\ Len(applications) < MaxApplications
  /\ \E salt \in Salts :
       LET key == configManager.config.encryptionKey
           s == saveApplication(applications,
                  [id |-> Len(applications) + 1, timestamp |-> Undefined],
                  now, key, salt)
       IN /\ applications' = s.applications
          /\ localStorage' = s.stored
          /\ saved' = [op |-> "saveApplication", at |-> now,
                       before |-> applications, key |-> key]
  /\ UNCHANGED <<serverVars, bootVars, limitVars, apiVars, configVars>>
  /\ UNCHANGED <<logger, logged, number>>

\* backend.clearExpiredSessions()
ClearExpiredSessions ==
  /\ \E salt \in Salts :
       LET key == configManager.config.encryptionKey
           c == clearExpiredSessions(applications, now, key, salt)
       IN /\ applications' = c.applications
          /\ localStorage' = c.stored
          /\ saved' = [op |-> "clearExpiredSessions", at |-> now,
                       before |-> applications, key |-> key]
  /\ UNCHANGED <<serverVars, bootVars, limitVars, apiVars, configVars>>
  /\ UNCHANGED <<logger, logged, number>>

NextBackend == BackendTick \/ SaveApplication \/ ClearExpiredSessions

SpecBackend == InitBackend /\ [][NextBackend]_vars

NextConfig ==
  ConfigTick \/ CallGetCsrfToken \/ ServerAnswers \/ FetchSettles
    \/ ResetSession

SpecConfig == InitConfig /\ [][NextConfig]_vars

(***************************************************************************)
(* Properties.  A request is answered in the step that receives it, and    *)
(* time passes only between requests, so in a state with a request its     *)
(* response res is the one computed at the time now; every request of      *)
(* Requests is sent in every state without a request.                      *)
(***************************************************************************)
IsPost == req.method = "POST"
\* the request that carries the string tok in the x-csrf-token header only
HeaderReq(tok) == Post(Str(tok), Undefined, Undefined)
\* the source of the request that carries a value, when exactly one does
Sources(r) == <<r.header, r.bodyToken, r.csrfToken>>
Given(r) == {k \in 1..3 : Sources(r)[k] # Undefined}
\* the time at which an issued token expires
ExpiresAt(i) == i.at + CSRF_TOKEN_EXPIRY_MS
Accepts(tok, t) == verifyCsrfToken(HeaderReq(tok), t, CSRF_SECRET) = Passed

\* the fields of a candidate as the claims name them
FieldCount(tok) == Len(Split(tok))
NonceField(tok) == Split(tok)[1]
ExpiryField(tok) == Split(tok)[2]
SignatureField(tok) == Split(tok)[3]

\* C1 (as stated): a candidate presented in the header is accepted if and
\* only if it has the fields nonce:expiry:signature, its signature field
\* equals the hex HMAC-SHA256 of `nonce:expiry` under the server secret, its
\* expiry field is numeric and now <= expiry.
C1_Valid(tok) ==
  /\ FieldCount(tok) >= 3
  /\ NonceField(tok) # <<>>
  /\ ExpiryField(tok) # <<>>
  /\ SignatureField(tok) =
       Hmac(CSRF_SECRET, Join(NonceField(tok), ExpiryField(tok)))
  /\ ~NumberIsNaN(Number(ExpiryField(tok)))
  /\ ~GreaterThan(now, Number(ExpiryField(tok)))
C1_AcceptIffValid ==
  (IsPost /\ req.header.t = "string" /\ req.bodyToken = Undefined
     /\ req.csrfToken = Undefined)
    => (res.next <=> C1_Valid(req.header.s))

\* C2: every issued token, presented in the x-csrf-token header at any time
\* from its issuance up to (not including) its expiry, is accepted and
\* control passes to the protected handler, whatever the body holds.
C2_IssuedAcceptedBeforeExpiry ==
  \A i \in issued :
    (IsPost /\ req.header = Str(i.token) /\ now < ExpiresAt(i))
      => res = Passed
C2_Witness ==
  \E i \in issued :
    /\ IsPost
    /\ req.header = Str(i.token)
    /\ now = ExpiresAt(i) - 1
    /\ res = Passed

\* C3: every issued token is rejected (403) at every time at least one
\* millisecond after its expiry, in particular 31 minutes after issuance;
\* the clock never goes back, so it is never accepted again.
C3_IssuedRejectedAfterExpiry ==
  \A i \in issued :
    (IsPost /\ req.header = Str(i.token) /\ now >= ExpiresAt(i) + 1)
      => res = Reject
C3_Witness ==
  \E i \in issued :
    /\ IsPost
    /\ req.header = Str(i.token)
    /\ now = ExpiresAt(i) + 1
    /\ res = Reject

\* the one value a request carries, when at most one source is given
Sole(r) ==
  IF Given(r) = {} THEN Undefined
  ELSE Sources(r)[CHOOSE k \in Given(r) : TRUE]
SingleSource == IsPost /\ Cardinality(Given(req)) <= 1

\* c differs from tok in exactly one character, inside the signature segment
OneCharSignatureFlip(c, tok) ==
  /\ Len(c) = Len(tok)
  /\ \E k \in (Len(tok) - Len(SignatureField(tok)) + 1)..Len(tok) :
       /\ c[k] # tok[k]
       /\ \A j \in 1..Len(tok) : j # k => c[j] = tok[j]

\* C4 (as stated): a token that differs in one character of the signature
\* segment from a token the verifier accepts is not accepted.
C4_FlippedSignatureRejected ==
  \A i \in issued :
    (IsPost /\ req.header.t = "string" /\ Accepts(i.token, now)
       /\ OneCharSignatureFlip(req.header.s, i.token))
      => ~res.next

Is64Hex(s) == Len(s) = HexDigestLen /\ \A k \in 1..Len(s) : s[k] \in HexChars
Malformed(v) ==
  \/ v.t # "string"
  \/ v.s = <<>>
  \/ FieldCount(v.s) < 3
  \/ ~Is64Hex(SignatureField(v.s))

\* C5 (as stated): a malformed candidate (absent, empty, not a string, fewer
\* than two colons, or a signature field that is not 64 hex characters) ends
\* in the 403 response and no exception is thrown.
C5_MalformedRejectedWithoutThrow ==
  (SingleSource /\ Malformed(Sole(req))) => (res = Reject /\ ~res.threw)

\* C6 (as stated): a candidate that does not split on `:` into exactly
\* three non-empty fields is rejected.
C6_NotThreeFieldsRejected ==
  (SingleSource /\ Sole(req).t = "string"
     /\ \/ FieldCount(Sole(req).s) # 3
        \/ \E k \in 1..FieldCount(Sole(req).s) : Split(Sole(req).s)[k] = <<>>)
    => res = Reject

\* C7 (as stated): a candidate whose expiry field does not parse as a finite
\* number is rejected, also when its signature is the correct HMAC.
C7_NonFiniteExpiryRejected ==
  (SingleSource /\ Sole(req).t = "string" /\ FieldCount(Sole(req).s) >= 3
     /\ Number(ExpiryField(Sole(req).s)).k # "fin")
    => res = Reject

\* C8 (as stated): every request the verifier does not let through gets the
\* same response, 403 {"error": "Invalid or missing CSRF token"}.
C8_UniformDenial ==
  (IsPost /\ ~res.next)
    => (res.status = 403 /\ res.error = ErrInvalidToken /\ res = Reject)

\* C9 (as stated): the candidate is the first source that is present
\* (header, then _token, then csrfToken); later sources are not consulted.
FirstPresent(r) ==
  IF r.header # Undefined THEN r.header
  ELSE IF r.bodyToken # Undefined THEN r.bodyToken
  ELSE r.csrfToken
C9_FirstPresentWins ==
  IsPost =>
    res = verifyCsrfToken(Post(FirstPresent(req), Undefined, Undefined),
                          now, CSRF_SECRET)

\* C9 (amended): the candidate is the first source whose value is truthy
\* (present and neither the empty string nor another falsy value), in the
\* order header, _token, csrfToken; sources after it are not consulted, so
\* an invalid truthy value in an earlier source is rejected even when a
\* later source carries a valid token.
FirstTruthy(r) ==
  IF Truthy(r.header) THEN r.header
  ELSE IF Truthy(r.bodyToken) THEN r.bodyToken
  ELSE r.csrfToken
C9_FirstTruthyWins ==
  IsPost =>
    res = verifyCsrfToken(Post(FirstTruthy(req), Undefined, Undefined),
                          now, CSRF_SECRET)
C9_Witness ==
  \E i \in issued :
    /\ IsPost
    /\ req.header = Str(<<"g">>)
    /\ req.bodyToken = Str(i.token)
    /\ Accepts(i.token, now)
    /\ res = Reject

\* C10: no step changes the secret, a verification changes neither the
\* issued tokens nor the clock, and a token the verifier accepts is still
\* accepted after any step (an issuance, a verification of any request, the
\* passing of time) that does not take the clock past its expiry.  The
\* verifier reads the token, the secret and the clock only, so the steps
\* that can change its answer are those that change the secret or the clock.
C10_StatelessReplay ==
  [][ /\ CSRF_SECRET' = CSRF_SECRET
      /\ (req'.method = "POST" => (issued' = issued /\ now' = now))
      /\ (now' # now \/ CSRF_SECRET' # CSRF_SECRET)
           => \A i \in issued :
                (Accepts(i.token, now) /\ now' <= ExpiresAt(i))
                  => verifyCsrfToken(HeaderReq(i.token), now', CSRF_SECRET')
                       = Passed ]_vars
C10_Witness ==
  \E i \in issued :
    /\ IsPost
    /\ req.header = Str(i.token)
    /\ now = ExpiresAt(i)
    /\ res = Passed


(***************************************************************************)
(* Properties of the start of the process (SpecBoot).                      *)
(***************************************************************************)
SecretAbsent == env.CSRF_SECRET = Undefined
Started == phase # "starting"

\* C11: once the process has started: with CSRF_SECRET absent and NODE_ENV
\* "production" the start has failed with an error, no route is registered
\* and no token has been issued or verified; with CSRF_SECRET absent and
\* any other NODE_ENV the server is loaded with its routes, its secret is an
\* ephemeral one of the process and the warning has been emitted.
C11_FailFastInProduction ==
  (Started /\ SecretAbsent) =>
    IF isProduction(env)
    THEN /\ phase = "failed"
         /\ routes = {}
         /\ issued = {}
         /\ req = NoRequest
         /\ res = NoResponse
    ELSE /\ phase = "loaded"
         /\ routes = Routes
         /\ CSRF_SECRET \in EphemeralSecrets
         /\ warned

\* a production process without the secret has tried to start
C11_Witness == Started /\ SecretAbsent /\ isProduction(env)


(***************************************************************************)
(* Properties of the issued tokens (Spec).                                 *)
(***************************************************************************)
IsLowerHex(s) == \A k \in 1..Len(s) : s[k] \in {HexLower[j] : j \in 1..16}
ThirtyMinutes == 30 * 60 * 1000

\* C12: every token GET /api/csrf-token returns (status 200) splits at ':'
\* into exactly three fields nonce:expiry:signature; its expiry reads as the
\* time of issuance plus 30 minutes in milliseconds, later than that time;
\* its signature is the 64 hex characters of the HMAC of `nonce:expiry`
\* under the server secret.  (Stated of the token in the answer, at the
\* time of the answer: every issued token is returned this way.)
C12_IssuedTokenShape ==
  /\ req = Get =>
       /\ res.status = 200
       /\ [token |-> res.token, at |-> now] \in issued
       /\ FieldCount(res.token) = 3
       /\ Number(ExpiryField(res.token)) = Finite(now + ThirtyMinutes)
       /\ Number(ExpiryField(res.token)).n > now
       /\ Len(SignatureField(res.token)) = 64
       /\ IsLowerHex(SignatureField(res.token))
       /\ SignatureField(res.token) =
            Hmac(CSRF_SECRET,
                 NonceField(res.token) \o <<":">> \o ExpiryField(res.token))
  /\ \A i \in issued : i.at <= now

\* a token has been handed out at a time after the origin of the clock
C12_Witness == req = Get /\ now > 0 /\ \E i \in issued : i.token = res.token


(***************************************************************************)
(* Properties of the client-side limiter (SpecLimit).  checks[k] is the    *)
(* k-th call of rateLimit.check() since the page was loaded.               *)
(***************************************************************************)
Calls == 1..Len(checks)
SixtySeconds == 60 * 1000
Ceiling == 5

\* the calls 1..k all fall within 60 s of the first one
WithinFirstWindow(k) == checks[k].at - checks[1].at <= SixtySeconds
\* call k is made more than 60 s after the last recorded attempt
AfterLastAttempt(k) == checks[k].at - checks[k].before.lastAttempt > SixtySeconds

\* C13: from the fresh limiter, of the calls made within 60 s of the first
\* one exactly the first five return true and the sixth and later ones
\* return false; a call made more than 60 s after the last recorded attempt
\* returns true and leaves attempts = 1.
C13_FiveThenBlockedThenReset ==
  \A k \in Calls :
    /\ WithinFirstWindow(k) => (checks[k].ret <=> k <= Ceiling)
    /\ AfterLastAttempt(k) =>
         checks[k].ret /\ checks[k].after.attempts = 1

\* five calls allowed and a sixth refused in one window, then a call more
\* than 60 s after the last recorded attempt
C13_Witness ==
  /\ Len(checks) >= 7
  /\ WithinFirstWindow(6)
  /\ ~checks[6].ret
  /\ AfterLastAttempt(7)

\* call k finds the ceiling reached and the window not elapsed
Blocked(k) ==
  /\ checks[k].before.attempts >= Ceiling
  /\ checks[k].at - checks[k].before.lastAttempt <= SixtySeconds

\* C14: a call made while attempts >= 5 and the window has not elapsed
\* returns false, shows the alert and leaves attempts and lastAttempt as
\* they were.
C14_RejectedCallChangesNothing ==
  \A k \in Calls :
    Blocked(k) =>
      /\ checks[k].ret = FALSE
      /\ checks[k].alert
      /\ checks[k].after = checks[k].before

\* a call has been refused some time after the last allowed one
C14_Witness ==
  \E k \in Calls : Blocked(k) /\ checks[k].at > checks[k].before.lastAttempt

\* the time at which attempts was last set to 0 before call k: the latest
\* earlier call that took the branch of line 118, or the creation of the
\* object
WindowStart(k) ==
  LET resets == {j \in 1..(k - 1) : checks[j].reset}
  IN IF resets = {} THEN 0
     ELSE checks[CHOOSE j \in resets : \A m \in resets : m <= j].at

\* call k sets attempts to 0 and then counts itself
ResetsThenCounts(k) == checks[k].reset /\ checks[k].after.attempts = 1

\* C15 as stated: a call made more than 60 s after the start of the
\* current window sets attempts to 0 before it counts the attempt.
C15_ResetsAfterWindowStart ==
  \A k \in Calls :
    checks[k].at - WindowStart(k) > SixtySeconds => ResetsThenCounts(k)

\* C15 as amended: a call made more than 60 s after the last recorded
\* attempt (the time of the last reset or allowed call) sets attempts to 0
\* before it counts the attempt.
C15_ResetsAfterLastAttempt ==
  \A k \in Calls : AfterLastAttempt(k) => ResetsThenCounts(k)

\* a later call of a behaviour has started a new window with a count
C15_Witness ==
  \E k \in Calls :
    k > 1 /\ AfterLastAttempt(k) /\ checks[k].before.attempts > 0

\* the calls allowed from call j on
AllowedFrom(j) == {k \in Calls : k >= j /\ checks[k].ret}
\* the calls allowed in the 60 s that start with call j
AllowedInWindow(j) ==
  {k \in Calls : /\ checks[k].ret
                 /\ checks[k].at >= checks[j].at
                 /\ checks[k].at - checks[j].at <= SixtySeconds}

\* C16: with handlers waiting at the same time and run in any order, every
\* call is one step from the object the previous call left; attempts is
\* the number of calls allowed since the last reset, so no increment is
\* lost; and no 60 s hold more than 5 allowed calls.
C16_SerializedNoLostIncrement ==
  /\ \A k \in Calls :
       checks[k].before = (IF k = 1 THEN FreshLimit ELSE checks[k - 1].after)
  /\ checks # <<>> => rateLimit = checks[Len(checks)].after
  /\ \A j \in Calls :
       /\ (checks[j].reset /\ \A k \in Calls : k > j => ~checks[k].reset)
            => rateLimit.attempts = Cardinality(AllowedFrom(j))
       /\ Cardinality(AllowedInWindow(j)) <= Ceiling
  /\ rateLimit.attempts <= Ceiling

\* two handlers are waiting at once when the ceiling has been reached
C16_Witness ==
  /\ queued = Handlers
  /\ rateLimit.attempts = Ceiling
  /\ \E k \in Calls : ~checks[k].ret


(***************************************************************************)
(* Properties of the server's limiter (SpecApi).                           *)
(***************************************************************************)
\* C17: of the requests a remote address sends to /api/ within one 60 s
\* window at most 120 reach a route handler; a request beyond them is
\* answered 429 and reaches none; the bucket of an address counts the
\* requests of that address alone; requests outside /api/ are not limited.
C17_AtMost120PerWindow ==
  /\ \A ip \in RemoteAddresses :
       /\ traffic[ip].handled <= 120
       /\ traffic[ip].handled = traffic[ip].sent \/ traffic[ip].sent > 120
       /\ buckets[ip].hits = traffic[ip].sent
  /\ answer # NoAnswer =>
       IF answer.path[1] = "api" /\ traffic[answer.ip].sent > 120
         THEN answer.status = 429 /\ ~answer.handled
         ELSE answer.status = 200 /\ answer.handled

\* one address has just been refused while the other one is being served
C17_Witness ==
  /\ answer.status = 429
  /\ \E ip \in RemoteAddresses \ {answer.ip} :
       traffic[ip].sent > 0 /\ traffic[ip].handled = traffic[ip].sent


(***************************************************************************)
(* Properties of the ConfigManager (SpecConfig).  In a state whose done.op *)
(* is "getCsrfToken" or "resetSession" the object is as that call left it: *)
(* only the clock has moved since.                                         *)
(***************************************************************************)
Called == done.op = "getCsrfToken"
Failed == done.op = "settled" /\ done.response # "ok"
JustReset == done.op = "resetSession"
\* at the time of the call the session had lasted 30 minutes or more
SessionOver == done.at - done.before.sessionStart >= 30 * 60 * 1000
IsLocal(v) == v.t = "string" /\ \A k \in 1..Len(v.s) : v.s[k] # ":"

\* C18: a call of getCsrfToken() fetches exactly when no token is cached or
\* the session has lasted 30 minutes or more; otherwise it returns the
\* cached token, fetches nothing and leaves the cache as it was.
C18_FetchIffNoTokenOrSessionOver ==
  Called =>
    /\ done.fetched <=> (done.before.config.csrfToken = Null \/ SessionOver)
    /\ ~done.fetched =>
         /\ done.returned = done.before.config.csrfToken
         /\ done.returned.t = "string"
    /\ configManager = done.before

\* a call has returned the cached token late in a session that began with
\* a reset
C18_Witness ==
  /\ Called
  /\ ~done.fetched
  /\ done.before.sessionStart > 0
  /\ done.at > done.before.sessionStart

\* C19: a fetch that fails (rejection or a response that is not ok) raises
\* nothing: the call returns a locally generated token of 64 characters and
\* caches it; and a call in a still valid session whose cache holds such a
\* token returns it without fetching.
C19_FallbackIs64CharsAndCached ==
  /\ Failed =>
       /\ ~done.threw
       /\ IsLocal(done.returned)
       /\ Len(done.returned.s) = 64
       /\ configManager.config.csrfToken = done.returned
  /\ (Called /\ IsLocal(done.before.config.csrfToken) /\ ~SessionOver) =>
       ~done.fetched /\ done.returned = done.before.config.csrfToken

\* C20: right after resetSession() the cached token is null, the encryption
\* key is not the one before, sessionStart is the time of the reset and not
\* earlier than it was, the session is valid at that time, and a call of
\* getCsrfToken() that comes next fetches.
C20_State ==
  JustReset =>
    /\ configManager.config.csrfToken = Null
    /\ configManager.config.encryptionKey # done.before.config.encryptionKey
    /\ configManager.sessionStart = done.at
    /\ configManager.sessionStart >= done.before.sessionStart
    /\ isSessionValid(configManager, done.at)
C20_Step == (JustReset /\ done'.op = "getCsrfToken") => done'.fetched
AllowedUpTo(j) ==
  {k \in Calls : /\ checks[k].ret
                 /\ checks[k].at <= checks[j].at
                 /\ checks[j].at - checks[k].at <= SixtySeconds}

\* C22: the calls are made at non-decreasing times, and no interval of
\* 60 s, whether it is taken to start or to end at a call, holds more
\* than 5 calls that returned true.
C22_AtMostFivePerSixtySeconds ==
  /\ \A j, k \in Calls : j <= k => checks[j].at <= checks[k].at
  /\ \A j \in Calls :
       /\ Cardinality(AllowedInWindow(j)) <= Ceiling
       /\ Cardinality(AllowedUpTo(j)) <= Ceiling

\* more than five calls returned true in all, five of them within 60 s,
\* and a call was refused
C22_Witness ==
  /\ Cardinality(AllowedFrom(1)) > Ceiling
  /\ \E j \in Calls : Cardinality(AllowedInWindow(j)) = Ceiling
  /\ \E k \in Calls : ~checks[k].ret

\* the last call before k that returned true (0 when there is none)
LastAllowedBefore(k) ==
  LET S == {j \in Calls : j < k /\ checks[j].ret}
  IN IF S = {} THEN 0 ELSE CHOOSE j \in S : \A i \in S : i <= j

\* C23: a call made more than 60 s after the last call that returned true
\* returns true, however many refused calls lie between the two; the
\* refused calls leave lastAttempt at the time of that last allowed call.
C23_BlockedActorIsReadmitted ==
  \A k \in Calls :
    LET j == LastAllowedBefore(k)
    IN j # 0 =>
         /\ checks[k].before.lastAttempt = checks[j].at
         /\ checks[k].at - checks[j].at > SixtySeconds => checks[k].ret

\* a call is allowed again after the ceiling was reached and calls were
\* refused since the last allowed one
C23_Witness ==
  \E k \in Calls :
    LET j == LastAllowedBefore(k)
    IN /\ j # 0
       /\ j < k - 1
       /\ checks[k].before.attempts >= Ceiling
       /\ checks[k].at - checks[j].at > SixtySeconds
       /\ checks[k].ret

\* the token v was issued by the server: nonce:expiry:signature
IsIssued(v) == v.t = "string" /\ ~IsLocal(v)
\* the time the server issued the token v at
IssuedAt(v) == Number(ExpiryField(v.s)).n - ThirtyMinutes
\* a call of getCsrfToken() has returned a server-issued token from its cache
ServedFromCache == Called /\ ~done.fetched /\ IsIssued(done.returned)

\* C24: with one clock for the page and the server, every server-issued
\* token that getCsrfToken() returns from its cache passes verifyCsrfToken
\* at the moment it is returned: it has not expired.
C24_CachedTokenIsUnexpired ==
  ServedFromCache =>
    /\ ~Expired(done.at, Number(ExpiryField(done.returned.s)))
    /\ verifyCsrfToken(Post(done.returned, Undefined, Undefined),
                       done.at, EnvSecret) = Passed

\* the session is over at the time of the step
Over == ~isSessionValid(configManager, now)

\* C26: a fetch does not renew the session. sessionStart moves only in
\* resetSession(); a session that is over stays over until resetSession();
\* and every call of getCsrfToken() made while it is over fetches and
\* returns nothing from the cache.
C26_State ==
  (Called /\ SessionOver) => done.fetched /\ done.returned = Undefined
C26_Step ==
  /\ done'.op # "resetSession" =>
       configManager'.sessionStart = configManager.sessionStart
  /\ (Over /\ done'.op # "resetSession") =>
       ~isSessionValid(configManager', now')
C26_FetchDoesNotRenewSession == []C26_State /\ [][C26_Step]_vars

\* a call fetches although the token in the cache was issued by the server
\* after the session had run out
C26_Witness ==
  /\ Called
  /\ done.fetched
  /\ IsIssued(done.before.config.csrfToken)
  /\ IssuedAt(done.before.config.csrfToken) - done.before.sessionStart
       >= ThirtyMinutes

\* a fetch has settled with a token of the server
Resolved == done.op = "settled" /\ done.response = "ok"

\* C27: a call made while no token is cached starts a fetch of its own,
\* also when another call is suspended, and leaves the fetches of the
\* others alone; the call whose fetch settles receives the token of that
\* fetch, and the cache then holds this token, that of the fetch that
\* settled last.
C27_State ==
  Resolved =>
    /\ done.returned = Str(done.fetch.response.token)
    /\ configManager.config.csrfToken = done.returned
C27_Step ==
  (done' # done /\ done'.op = "getCsrfToken"
     /\ configManager.config.csrfToken = Null) =>
    /\ done'.fetched
    /\ Len(inflight') = Len(inflight) + 1
    /\ SubSeq(inflight', 1, Len(inflight)) = inflight
    /\ inflight'[Len(inflight')].response = Pending
C27_OverlappingCallsFetchTheirOwn == []C27_State /\ [][C27_Step]_vars

\* the second of two calls made while no token was cached receives its
\* token after the first has cached another one
C27_Witness ==
  /\ Resolved
  /\ done.fetch.others = 1
  /\ ~done.fetch.cached
  /\ IsIssued(done.before.config.csrfToken)
  /\ done.before.config.csrfToken # done.returned

\* the token carried by the request was made by the page, not the server
CarriesFallback == req.method = "POST" /\ IsLocal(TokenOf(req))

\* C25: a request to a protected route that carries a fallback token (the
\* key getCsrfToken() falls back to, or the literal of form.js) is answered
\* 403 by verifyCsrfToken, at every time and with either server secret.
C25_FallbackTokenIsRefused ==
  CarriesFallback =>
    /\ res = Reject
    /\ res.status = 403
    /\ ~res.next

\* the key cached after a failed fetch has been sent, some time after
\* load, to a server that runs on a secret of its own making
C25_Witness ==
  /\ CarriesFallback
  /\ TokenOf(req) = configManager.config.csrfToken
  /\ Len(TokenOf(req).s) = 64
  /\ now > 0
  /\ CSRF_SECRET = EphemeralSecret

\* the address has sent more than 120 requests to /api/ in the window
Exceeded == traffic[GateAddress].sent > max

\* C28: the limiter runs before the token is verified. A POST to
\* /api/ekyc/error-report from an address that has exceeded 120 requests is
\* answered 429 and neither verifyCsrfToken nor the handler runs, whatever
\* the token; below the ceiling verifyCsrfToken runs and the handler runs
\* exactly when it lets the request through; and the requests to
\* GET /api/csrf-token are counted in the same bucket.
C28_LimiterRunsBeforeVerification ==
  /\ buckets[GateAddress].hits = traffic[GateAddress].sent
  /\ answer # NoAnswer =>
       IF Exceeded
         THEN answer.status = 429 /\ res = NoResponse /\ ~answer.handled
         ELSE /\ answer.status # 429
              /\ answer.path = PathErrorReport =>
                   /\ res \in {Passed, Reject, Thrown}
                   /\ answer.handled <=> res = Passed
              /\ answer.path = PathCsrfToken =>
                   answer.handled /\ res.status = 200

\* a request that carries a token the server issued is refused with 429
C28_Witness ==
  /\ Exceeded
  /\ answer.path = PathErrorReport
  /\ answer.status = 429
  /\ req = Post(Str(issueCsrfToken(NonceOf(3), 0, EnvSecret)),
                Undefined, Undefined)

\* C30: for every non-negative integer n, unformatNumber(formatNumber(n))
\* is n, formatNumber writing the thousands with '.'.
C30_RoundTrip ==
  number.back # NoValue => number.back = Integer(number.n)

Hundred == 100
\* the last k elements of s, all of them when there are fewer
Last(s, k) == SubSeq(s, IF Len(s) > k THEN Len(s) - k + 1 ELSE 1, Len(s))

\* C29: after any calls of debug, info, warn and error the history holds at
\* most 100 entries, and they are the entries recorded last, in the order
\* they were recorded in.
C29_HistoryIsLastHundred ==
  /\ Len(logger.logHistory) <= Hundred
  /\ logger.logHistory = Last(logged.recorded, Hundred)

\* more than 100 entries have been recorded, by a page that logs at
\* several levels, and the oldest ones are gone
C29_Witness ==
  /\ Len(logged.recorded) > Hundred
  /\ Len(logged.script) > 1
  /\ logger.logHistory[1].message > 1
  /\ logger.logHistory[Hundred] = logged.recorded[Len(logged.recorded)]

\* the last call on backend was clearExpiredSessions()
Cleared == saved.op = "clearExpiredSessions"
\* the entry has a timestamp and is younger than 30 minutes at time t
Young(app, t) ==
  app.timestamp # Undefined /\ t - app.timestamp.n < ThirtyMinutes

\* C21: after clearExpiredSessions() backend.applications holds exactly the
\* entries it held before that have a timestamp and are younger than 30
\* minutes, in the order they had, and localStorage holds under
\* loanApplications the encryption of that very list.
C21_ClearKeepsYoungEntries ==
  Cleared =>
    /\ applications =
         SelectSeq(saved.before, LAMBDA app : Young(app, saved.at))
    /\ localStorage # Null
    /\ Parse(Decrypt(localStorage, saved.key)) = applications

\* of an entry without timestamp, one of exactly 30 minutes and a
\* younger one, the younger one is left
C21_Witness ==
  /\ Cleared
  /\ \E i \in 1..Len(saved.before) : saved.before[i].timestamp = Undefined
  /\ \E i \in 1..Len(saved.before) :
       /\ saved.before[i].timestamp # Undefined
       /\ saved.at - saved.before[i].timestamp.n = ThirtyMinutes
  /\ Len(applications) = 1

============================================================================
